---- MODULE Spec2Model ----
(***************************************************************************)
(* Model of the compute node controller                                    *)
(* (shardingsphere-operator/pkg/controllers/compute_node_controller.go):   *)
(* the reconcile pass over the cluster store, the service node-port logic, *)
(* the pod condition classifier, the rollup, the condition history merge   *)
(* and the status projection.                                              *)
(***************************************************************************)
EXTENDS Integers, Sequences, FiniteSets, TLC

VARIABLES
    stCN,       \* the parent ComputeNode held by the cluster store, or Nil
    stSvc,      \* the Service of the same namespaced name in the store, or Nil
    stDeploy,   \* the Deployment in the store, or Nil
    stCM,       \* the ConfigMap in the store, or Nil
    stPods,     \* the pods the selector matches (what r.List returns)
    clock,      \* wall clock read by metav1.NewTime(time.Now())
    lastCond,   \* the condition the latest classification or rollup returned
    pc,         \* position of the reconcile pass
    cn,         \* the pass's snapshot of the parent (local cn of Reconcile)
    errors,     \* the pass's collected reconciler errors (local errors)
    calls,      \* the reconcilers the pass has invoked, in order
    steps,      \* what the fetch, the projector and each reconciler returned
    result,     \* the directive the latest pass returned
    passes,     \* number of passes dispatched so far
    edits,      \* number of steps the environment (end user, pods, other clients) took so far
    faults,     \* number of store calls that failed or answered out of turn so far
    podItems,   \* reconcileStatus: the pods r.List returned
    service,    \* reconcileStatus: the service r.Get returned
    rt,         \* reconcileStatus: the parent getRuntimeComputeNode returned
    deploy,     \* reconcileDeployment: the deployment it read, or Nil
    curSvc,     \* reconcileService: the service it read, or Nil
    cm          \* reconcileConfigMap: the config bundle it read, or Nil

vars == <<stCN, stSvc, stDeploy, stCM, stPods, clock, lastCond,
          pc, cn, errors, calls, steps, result, passes, edits, faults,
          podItems, service, rt, deploy, curSvc, cm>>

Nil == [kind |-> "nil"]

\* outside the function that declares them the pass-local variables hold nothing
NoLocals ==
    /\ podItems = <<>>
    /\ service = Nil
    /\ rt = Nil
    /\ deploy = Nil
    /\ curSvc = Nil
    /\ cm = Nil

-----------------------------------------------------------------------------
(* Bounds of the model.                                                    *)

MaxPods == 3
MaxPodsHist == 2
MaxMerges == 3
MaxPasses == 2
MaxEdits == 1
MaxFaults == 2

-----------------------------------------------------------------------------
(* Condition types, statuses and the condition record.                     *)

ComputeNodeConditionTypes ==
    {"Unknown", "Pending", "Deployed", "Initialized", "Started", "Ready", "Failed"}

\* the zero value of v1alpha1.ComputeNodeCondition
ZeroCondition ==
    [Type |-> "", Status |-> "", LastUpdateTime |-> 0, LastTransitionTime |-> 0,
     Reason |-> "", Message |-> ""]

CondOfType(t) == [ZeroCondition EXCEPT !.Type = t]

newCondition(t, reason, message, now) ==
    [Type |-> t, Status |-> "True", LastUpdateTime |-> now,
     LastTransitionTime |-> now, Reason |-> reason, Message |-> message]

-----------------------------------------------------------------------------
(* Condition classifier: one pod observation -> one condition type.        *)

HasTrue(conditions, t) ==
    \E i \in DOMAIN conditions :
        conditions[i].Type = t /\ conditions[i].Status = "True"

getPreferedConditionFromPodConditions_Swapped(conditions) ==
    LET sched       == HasTrue(conditions, "PodScheduled")
        initialized == HasTrue(conditions, "Initialized")
        conReady    == HasTrue(conditions, "ContainersReady")
        ready       == HasTrue(conditions, "Ready")
    IN  IF conReady THEN CondOfType("Started")
        ELSE IF ready THEN CondOfType("Ready")
        ELSE IF initialized THEN CondOfType("Initialized")
        ELSE IF sched THEN CondOfType("Deployed")
        ELSE ZeroCondition

getPreferedConditionFromPodConditions(conditions) ==
    LET sched       == HasTrue(conditions, "PodScheduled")
        initialized == HasTrue(conditions, "Initialized")
        conReady    == HasTrue(conditions, "ContainersReady")
        ready       == HasTrue(conditions, "Ready")
    IN  IF ready THEN CondOfType("Ready")
        ELSE IF conReady THEN CondOfType("Started")
        ELSE IF initialized THEN CondOfType("Initialized")
        ELSE IF sched THEN CondOfType("Deployed")
        ELSE ZeroCondition

getPreferedConditionFromPod(pod) ==
    IF pod.Phase = "Unknown" THEN CondOfType("Unknown")
    ELSE IF pod.Phase = "Pending" THEN CondOfType("Pending")
    ELSE IF pod.Phase = "Failed" THEN CondOfType("Failed")
    ELSE getPreferedConditionFromPodConditions(pod.Conditions)

-----------------------------------------------------------------------------
(* Per-resource rollup.                                                    *)

\* result[t] of getConditionFromPods: the number of pods classified t
ResultCount(podlist, t) ==
    Cardinality({i \in DOMAIN podlist : getPreferedConditionFromPod(podlist[i]).Type = t})

getConditionFromPods_PendingFirst(podlist, now) ==
    IF Len(podlist) = 0
    THEN newCondition("Unknown", "PodNotFound", "No pod was found", now)
    ELSE IF ResultCount(podlist, "Unknown") = Len(podlist)
    THEN newCondition("Unknown", "PodUnknown", "All pods are unknown", now)
    ELSE IF ResultCount(podlist, "Pending") > 0
    THEN newCondition("Pending", "PodPending", "Some pods are pending", now)
    ELSE IF ResultCount(podlist, "Ready") > 0
    THEN newCondition("Ready", "PodReady", "Some pods are ready", now)
    ELSE IF ResultCount(podlist, "Started") > 0
    THEN newCondition("Started", "PodStarted", "Some pods are started", now)
    ELSE IF ResultCount(podlist, "Initialized") > 0
    THEN newCondition("Initialized", "PodInitialized", "Some pods are initialized", now)
    ELSE IF ResultCount(podlist, "Deployed") > 0
    THEN newCondition("Deployed", "PodDeployed", "Some pods are deployed", now)
    ELSE IF ResultCount(podlist, "Failed") > 0
    THEN newCondition("Failed", "PodFailed", "Some pods are failed", now)
    ELSE ZeroCondition

getConditionFromPods(podlist, now) ==
    IF Len(podlist) = 0
    THEN newCondition("Unknown", "PodNotFound", "No pod was found", now)
    ELSE IF ResultCount(podlist, "Unknown") = Len(podlist)
    THEN newCondition("Unknown", "PodUnknown", "All pods are unknown", now)
    ELSE IF ResultCount(podlist, "Ready") > 0
    THEN newCondition("Ready", "PodReady", "Some pods are ready", now)
    ELSE IF ResultCount(podlist, "Started") > 0
    THEN newCondition("Started", "PodStarted", "Some pods are started", now)
    ELSE IF ResultCount(podlist, "Initialized") > 0
    THEN newCondition("Initialized", "PodInitialized", "Some pods are initialized", now)
    ELSE IF ResultCount(podlist, "Deployed") > 0
    THEN newCondition("Deployed", "PodDeployed", "Some pods are deployed", now)
    ELSE IF ResultCount(podlist, "Pending") > 0
    THEN newCondition("Pending", "PodPending", "Some pods are pending", now)
    ELSE IF ResultCount(podlist, "Failed") > 0
    THEN newCondition("Failed", "PodFailed", "Some pods are failed", now)
    ELSE ZeroCondition

-----------------------------------------------------------------------------
(* History merge.                                                          *)

\* the loop body of updateComputeNodeStatusCondition for one entry
MergeEntry(entry, cond) ==
    IF entry.Type = cond.Type THEN cond
    ELSE IF cond.Type = "Unknown"
    THEN [entry EXCEPT !.LastUpdateTime = cond.LastUpdateTime, !.Status = "False"]
    ELSE IF entry.Type = "Unknown"
    THEN [entry EXCEPT !.Status = "False", !.LastUpdateTime = cond.LastUpdateTime]
    ELSE [entry EXCEPT !.LastUpdateTime = cond.LastUpdateTime]

updateComputeNodeStatusCondition_AlwaysAppend(conditions, cond) ==
    Append([i \in DOMAIN conditions |-> MergeEntry(conditions[i], cond)], cond)

updateComputeNodeStatusCondition_KeepUnknown(conditions, cond) ==
    LET found  == \E i \in DOMAIN conditions : conditions[i].Type = cond.Type
        merged == [i \in DOMAIN conditions |->
                     IF conditions[i].Type = cond.Type THEN cond
                     ELSE [conditions[i] EXCEPT !.LastUpdateTime = cond.LastUpdateTime]]
    IN  IF Len(conditions) = 0 \/ ~found THEN Append(merged, cond) ELSE merged

\* the entry of the merged type is taken out and the merged condition put last
updateComputeNodeStatusCondition_MoveToEnd(conditions, cond) ==
    LET OtherType(c) == c.Type # cond.Type
        merged == [i \in DOMAIN conditions |-> MergeEntry(conditions[i], cond)]
    IN  Append(SelectSeq(merged, OtherType), cond)

updateComputeNodeStatusCondition(conditions, cond) ==
    LET found  == \E i \in DOMAIN conditions : conditions[i].Type = cond.Type
        merged == [i \in DOMAIN conditions |-> MergeEntry(conditions[i], cond)]
    IN  IF Len(conditions) = 0 \/ ~found THEN Append(merged, cond) ELSE merged

-----------------------------------------------------------------------------
(* Ready counting and the status projection.                               *)

isTrueReadyPod(pod) == HasTrue(pod.Conditions, "Ready")

\* what findRunningPod adds to cnt for one pod
ReadyProxyContainers_AnyContainer(pod) ==
    IF pod.Phase # "Running" THEN 0
    ELSE IF isTrueReadyPod(pod)
    THEN Cardinality({j \in DOMAIN pod.ContainerStatuses : pod.ContainerStatuses[j].Ready})
    ELSE 0

\* the pod's own Ready sub-condition is not consulted
ReadyProxyContainers_IgnoreReady(pod) ==
    IF pod.Phase # "Running" THEN 0
    ELSE Cardinality({j \in DOMAIN pod.ContainerStatuses :
                        /\ pod.ContainerStatuses[j].Name = "shardingsphere-proxy"
                        /\ pod.ContainerStatuses[j].Ready})

ReadyProxyContainers(pod) ==
    IF pod.Phase # "Running" THEN 0
    ELSE IF isTrueReadyPod(pod)
    THEN Cardinality({j \in DOMAIN pod.ContainerStatuses :
                        /\ pod.ContainerStatuses[j].Name = "shardingsphere-proxy"
                        /\ pod.ContainerStatuses[j].Ready})
    ELSE 0

RECURSIVE SumReady(_, _)
SumReady(podlist, n) ==
    IF n = 0 THEN 0 ELSE SumReady(podlist, n - 1) + ReadyProxyContainers(podlist[n])

getReadyProxyInstances(podlist) == SumReady(podlist, Len(podlist))

DecimalDigits == <<"0", "1", "2", "3", "4", "5", "6", "7", "8", "9">>

\* the %d verb of fmt.Sprintf
RECURSIVE FormatNat(_)
FormatNat(n) ==
    IF n < 10 THEN DecimalDigits[n + 1]
    ELSE FormatNat(n \div 10) \o DecimalDigits[(n % 10) + 1]

FormatInt(n) == IF n < 0 THEN "-" \o FormatNat(0 - n) ELSE FormatNat(n)

\* fmt.Sprintf("%d/%d", ready, replicas)
SprintfReady(ready, replicas) == FormatInt(ready) \o "/" \o FormatInt(replicas)

reconcileComputeNodeStatus(podlist, svc, node, now) ==
    LET cond  == getConditionFromPods(podlist, now)
        ready == getReadyProxyInstances(podlist)
    IN  [node EXCEPT
            !.Status.Conditions = updateComputeNodeStatusCondition(@, cond),
            !.Status.Ready = SprintfReady(ready, node.Spec.Replicas),
            !.Status.ReadyInstances = ready,
            !.Status.Phase = IF ready > 0 THEN "Ready" ELSE "NotReady",
            !.Status.LoadBalancer = [ClusterIP |-> svc.Spec.ClusterIP,
                                     Ingress |-> svc.Status.LoadBalancer.Ingress]]

-----------------------------------------------------------------------------
(* Objects of the cluster store.                                           *)

ParentName == "cn"

ZeroStatus ==
    [Phase |-> "", Ready |-> "", ReadyInstances |-> 0, Conditions |-> <<>>,
     LoadBalancer |-> [ClusterIP |-> "", Ingress |-> <<>>]]

\* a ComputeNode as the store holds it right after the user created it
NewParent(spec) == [ResourceVersion |-> 1, Spec |-> spec, Status |-> ZeroStatus]

ZeroMeta ==
    [Name |-> ParentName, UID |-> "", ResourceVersion |-> 0,
     Labels |-> "built", Annotations |-> ""]

Err(src, kind) == [Src |-> src, Kind |-> kind]
\* the nil error
NoErr == Err("", "nil")
\* marks a step the pass has not run
NotRun == Err("", "notrun")

-----------------------------------------------------------------------------
(* Manifest builders (pkg/kubernetes/{deployment,service,configmap}).      *)

BuildPort(pb) ==
    [Name |-> pb.Name, TargetPort |-> pb.ContainerPort, Port |-> pb.ServicePort,
     Protocol |-> pb.Protocol, NodePort |-> pb.NodePort]

ServiceBuild(node) ==
    [ObjectMeta |-> ZeroMeta,
     Spec |-> [Type |-> node.Spec.ServiceType, ClusterIP |-> "", ClusterIPs |-> <<>>,
               Selector |-> node.Spec.Selector,
               Ports |-> [i \in DOMAIN node.Spec.PortBindings |->
                            BuildPort(node.Spec.PortBindings[i])]],
     Status |-> [LoadBalancer |-> [Ingress |-> <<>>]]]

DeploymentBuild(node) ==
    [ObjectMeta |-> ZeroMeta,
     Spec |-> [Replicas |-> node.Spec.Replicas, Selector |-> node.Spec.Selector,
               ContainerPorts |-> [i \in DOMAIN node.Spec.PortBindings |->
                                     node.Spec.PortBindings[i].ContainerPort]]]

ConfigMapBuild(node) ==
    [ObjectMeta |-> ZeroMeta, Data |-> [ServerConfig |-> "server.yaml"]]

-----------------------------------------------------------------------------
(* Cluster store: what Create and Update do to an object.                  *)

NodePortPool == {30080, 30081}
AllocatedClusterIP == "10.96.0.10"

\* the platform's choice of a node port for each port name
Allocations ==
    {a \in [{"p", "q"} -> NodePortPool] : a["p"] # a["q"]}

ExposesNodePorts(type) == type \in {"NodePort", "LoadBalancer"}

\* node ports the platform assigns to the ports that ask for none
AllocatePorts(type, ports, alloc) ==
    [i \in DOMAIN ports |->
        IF ExposesNodePorts(type) /\ ports[i].NodePort = 0
        THEN [ports[i] EXCEPT !.NodePort = alloc[ports[i].Name]]
        ELSE ports[i]]

StoreCreateService(svc, alloc) ==
    [svc EXCEPT
        !.ObjectMeta.UID = "uid-svc",
        !.ObjectMeta.ResourceVersion = 1,
        !.Spec.ClusterIP = IF svc.Spec.Type = "ExternalName" THEN "" ELSE AllocatedClusterIP,
        !.Spec.ClusterIPs = IF svc.Spec.Type = "ExternalName" THEN <<>>
                            ELSE <<AllocatedClusterIP>>,
        !.Spec.Ports = AllocatePorts(svc.Spec.Type, svc.Spec.Ports, alloc)]

StoreUpdateService(cur, exp, alloc) ==
    LET new == [exp EXCEPT !.Spec.Ports = AllocatePorts(exp.Spec.Type, exp.Spec.Ports, alloc),
                           !.Status = cur.Status]
    IN  IF new = cur THEN cur
        ELSE [new EXCEPT !.ObjectMeta.ResourceVersion = cur.ObjectMeta.ResourceVersion + 1]

StoreCreate(obj, uid) ==
    [obj EXCEPT !.ObjectMeta.UID = uid, !.ObjectMeta.ResourceVersion = 1]

\* an update whose version token was stripped replaces the object
StoreUpdate(cur, exp) ==
    LET new == [exp EXCEPT !.ObjectMeta.ResourceVersion = cur.ObjectMeta.ResourceVersion]
    IN  IF new = cur THEN cur
        ELSE [new EXCEPT !.ObjectMeta.ResourceVersion = cur.ObjectMeta.ResourceVersion + 1]

\* r.Update(ctx, cn): the spec is replaced, the status subresource is kept
StoreUpdateParentSpec(cur, node) ==
    IF node.Spec = cur.Spec THEN cur
    ELSE [cur EXCEPT !.Spec = node.Spec, !.ResourceVersion = cur.ResourceVersion + 1]

\* r.Status().Update(ctx, rt): the status is replaced, the spec is kept
StoreUpdateParentStatus(cur, node) ==
    IF node.Status = cur.Status THEN cur
    ELSE [cur EXCEPT !.Status = node.Status, !.ResourceVersion = cur.ResourceVersion + 1]

\* the store rejects an update that carries a version token other than the stored one
VersionConflict(cur, obj) == obj.ResourceVersion # cur.ResourceVersion

-----------------------------------------------------------------------------
(* Service reconciler: node-port logic.                                    *)

MinOf(S) == CHOOSE x \in S : \A y \in S : x <= y

\* the inner loop of updateServiceNodePort for one live service port
AdoptNodePort(portBindings, svcport) ==
    LET matching == {i \in DOMAIN portBindings : portBindings[i].Name = svcport.Name}
    IN  IF matching = {} THEN portBindings
        ELSE IF portBindings[MinOf(matching)].NodePort = 0
        THEN [portBindings EXCEPT ![MinOf(matching)].NodePort = svcport.NodePort]
        ELSE portBindings

RECURSIVE AdoptFrom(_, _, _)
AdoptFrom(portBindings, svcports, idx) ==
    IF idx > Len(svcports) THEN portBindings
    ELSE AdoptFrom(AdoptNodePort(portBindings, svcports[idx]), svcports, idx + 1)

updateServiceNodePort_NoAdopt(portBindings, svcports) == portBindings

\* the live node port is written over whatever the binding holds
updateServiceNodePort_Overwrite(portBindings, svcports) ==
    [i \in DOMAIN portBindings |->
        LET live == {k \in DOMAIN svcports : svcports[k].Name = portBindings[i].Name}
        IN  IF live = {} THEN portBindings[i]
            ELSE [portBindings[i] EXCEPT !.NodePort = svcports[MinOf(live)].NodePort]]

updateServiceNodePort(portBindings, svcports) == AdoptFrom(portBindings, svcports, 1)

\* the binding that held a node port is removed instead of cleared
updateServiceClusterIP_DropBinding(portBindings) ==
    LET nonzero == {i \in DOMAIN portBindings : portBindings[i].NodePort # 0}
    IN  IF nonzero = {} THEN portBindings
        ELSE [k \in 1..(Len(portBindings) - 1) |->
                IF k < MinOf(nonzero) THEN portBindings[k] ELSE portBindings[k + 1]]

updateServiceClusterIP(portBindings) ==
    LET nonzero == {i \in DOMAIN portBindings : portBindings[i].NodePort # 0}
    IN  IF nonzero = {} THEN portBindings
        ELSE [portBindings EXCEPT ![MinOf(nonzero)].NodePort = 0]

\* the inner loop of updateNodePorts for one binding
JoinBinding(pb, svcports) ==
    LET SameName(sp) == sp.Name = pb.Name
        live == SelectSeq(svcports, SameName)
    IN  [k \in DOMAIN live |->
            [Name |-> pb.Name, TargetPort |-> pb.ContainerPort, Port |-> pb.ServicePort,
             Protocol |-> pb.Protocol,
             NodePort |-> IF live[k].NodePort # 0 THEN live[k].NodePort ELSE 0]]

RECURSIVE JoinFrom(_, _, _)
JoinFrom(portbindings, svcports, pb) ==
    IF pb > Len(portbindings) THEN <<>>
    ELSE JoinBinding(portbindings[pb], svcports) \o JoinFrom(portbindings, svcports, pb + 1)

updateNodePorts(portbindings, svcports) == JoinFrom(portbindings, svcports, 1)

\* the parent as updateService leaves it before r.Update(ctx, cn)
MutateBindings(node, cur) ==
    IF node.Spec.ServiceType = "ClusterIP"
    THEN [node EXCEPT !.Spec.PortBindings = updateServiceClusterIP(@)]
    ELSE IF node.Spec.ServiceType \in {"ExternalName", "LoadBalancer", "NodePort"}
    THEN [node EXCEPT !.Spec.PortBindings = updateServiceNodePort(@, cur.Spec.Ports)]
    ELSE node

WritesParent(node) ==
    node.Spec.ServiceType \in {"ClusterIP", "ExternalName", "LoadBalancer", "NodePort"}

\* the update carries the address the builder produced
ExpectedService_BuiltAddress(node, cur) ==
    LET exp == ServiceBuild(node)
    IN  [exp EXCEPT
            !.ObjectMeta = cur.ObjectMeta,
            !.Spec.Ports = IF node.Spec.ServiceType = "NodePort"
                           THEN updateNodePorts(node.Spec.PortBindings, cur.Spec.Ports)
                           ELSE @]

\* the service object updateService hands to r.Update(ctx, exp)
ExpectedService(node, cur) ==
    LET exp == ServiceBuild(node)
    IN  [exp EXCEPT
            !.ObjectMeta = cur.ObjectMeta,
            !.Spec.ClusterIP = cur.Spec.ClusterIP,
            !.Spec.ClusterIPs = cur.Spec.ClusterIPs,
            !.Spec.Ports = IF node.Spec.ServiceType = "NodePort"
                           THEN updateNodePorts(node.Spec.PortBindings, cur.Spec.Ports)
                           ELSE @]

\* the object updateDeployment and updateConfigMap hand to Update
ExpectedArtifact(built, cur) ==
    [built EXCEPT
        !.ObjectMeta = [cur.ObjectMeta EXCEPT !.ResourceVersion = 0]]

-----------------------------------------------------------------------------
(* Inputs: desired states and pod observations.                            *)

defaultRequeueTime == 10

ServiceTypes == {"ClusterIP", "NodePort", "LoadBalancer", "ExternalName"}
UserNodePorts == {0, 30090}

Binding(name, nodePort) ==
    [Name |-> name,
     ContainerPort |-> IF name = "p" THEN 3307 ELSE 3308,
     ServicePort |-> IF name = "p" THEN 3307 ELSE 3308,
     Protocol |-> "TCP", NodePort |-> nodePort]

\* ordered port bindings with unique names
BindingLists ==
    {<<>>}
    \cup {<<Binding(n, np)>> : n \in {"p", "q"}, np \in UserNodePorts}
    \cup {<<Binding("p", np1), Binding("q", np2)>> :
            np1 \in UserNodePorts, np2 \in UserNodePorts}

DesiredStates ==
    [Replicas : {2}, Selector : {"app=cn"}, ServiceType : ServiceTypes,
     PortBindings : BindingLists]

PodCondition(t, b) == [Type |-> t, Status |-> IF b THEN "True" ELSE "False"]

\* the sub-conditions of a pod, of which the first `n` of the usual progression
\* (scheduled, initialized, containers ready, ready) are true
Progress(n) ==
    <<PodCondition("PodScheduled", n >= 1), PodCondition("Initialized", n >= 2),
      PodCondition("ContainersReady", n >= 3), PodCondition("Ready", n >= 4)>>

ContainerStatus(name, ready) == [Name |-> name, Ready |-> ready]

Pod(phase, conditions, containers) ==
    [Phase |-> phase, Conditions |-> conditions, ContainerStatuses |-> containers]

ProxyReady    == <<ContainerStatus("shardingsphere-proxy", TRUE)>>
ProxyNotReady == <<ContainerStatus("agent", TRUE), ContainerStatus("shardingsphere-proxy", FALSE)>>

\* the pod observations the pod lists are drawn from
PodSamples ==
    { Pod("Unknown", <<>>, ProxyNotReady),
      Pod("Pending", Progress(1), ProxyNotReady),
      Pod("Pending", Progress(4), ProxyReady),
      Pod("Failed", Progress(2), ProxyNotReady),
      Pod("Running", Progress(0), ProxyNotReady),
      Pod("Running", Progress(1), ProxyNotReady),
      Pod("Running", Progress(2), ProxyNotReady),
      Pod("Running", Progress(3), ProxyReady),
      Pod("Running", Progress(4), ProxyReady),
      Pod("Running", Progress(4), ProxyNotReady),
      Pod("Succeeded", <<>>, <<>>),
      Pod("Succeeded", Progress(4), ProxyReady) }

SeqsUpTo(S, n) == UNION {[1..k -> S] : k \in 0..n}

PodLists == SeqsUpTo(PodSamples, MaxPods)
PodListsHist == SeqsUpTo(PodSamples, MaxPodsHist)

\* the pod lists the store of the reconcile pass may hold
PodListsPass ==
    { <<>>,
      <<Pod("Running", Progress(4), ProxyReady)>>,
      <<Pod("Pending", Progress(1), ProxyNotReady)>> }

-----------------------------------------------------------------------------
(* The reconcile pass: one action per round trip to the cluster store.     *)

NoSteps ==
    [fetch |-> NotRun, status |-> NotRun, deployment |-> NotRun,
     service |-> NotRun, configmap |-> NotRun]

NoResult == [Requeue |-> FALSE, RequeueAfter |-> 0, Err |-> NotRun]

\* Reconcile, lines 74-81: the directive when the parent could not be fetched
FetchFailed(err) ==
    IF err.Kind = "NotFound"
    THEN [Requeue |-> FALSE, RequeueAfter |-> defaultRequeueTime, Err |-> NoErr]
    ELSE [Requeue |-> TRUE, RequeueAfter |-> 0, Err |-> err]

Directive_LastError(errs) ==
    IF Len(errs) # 0
    THEN [Requeue |-> TRUE, RequeueAfter |-> 0, Err |-> errs[Len(errs)]]
    ELSE [Requeue |-> FALSE, RequeueAfter |-> defaultRequeueTime, Err |-> NoErr]

\* Reconcile, lines 101-105: the directive after the reconcilers ran
Directive(errs) ==
    IF Len(errs) # 0
    THEN [Requeue |-> TRUE, RequeueAfter |-> 0, Err |-> errs[1]]
    ELSE [Requeue |-> FALSE, RequeueAfter |-> defaultRequeueTime, Err |-> NoErr]

NextStep_ShortCircuit(step, err) ==
    IF err # NoErr THEN "return"
    ELSE IF step = "status" THEN "deployment"
    ELSE IF step = "deployment" THEN "service"
    ELSE IF step = "service" THEN "configmap"
    ELSE "return"

\* Reconcile, lines 83-99: where the pass goes after a step returned err
NextStep(step, err) ==
    IF step = "status" THEN "deployment"
    ELSE IF step = "deployment" THEN "service"
    ELSE IF step = "service" THEN "configmap"
    ELSE "return"

\* a store call may fail (or answer out of turn), MaxFaults times in a run
Inject(fault) ==
    /\ fault # "none" => faults < MaxFaults
    /\ faults' = IF fault # "none" THEN faults + 1 ELSE faults

\* Reconcile, lines 88-99: a reconciler was invoked and returned err
Collect(step, err) ==
    /\ calls' = Append(calls, step)
    /\ steps' = [steps EXCEPT ![step] = err]
    /\ errors' = IF err # NoErr THEN Append(errors, err) ELSE errors
    /\ pc' = NextStep(step, err)

\* a reconciler goes on to its next round trip
Proceed(next) ==
    /\ pc' = next
    /\ UNCHANGED <<calls, steps, errors>>

\* the answer of the store to Create(object) of kind `src` while it holds `stored`
CreateErr(src, stored, fault) ==
    IF fault = "Write" THEN Err(src \o ".Create", "TransientIO")
    ELSE IF fault = "AlreadyExists" \/ stored # Nil THEN Err(src \o ".Create", "AlreadyExists")
    ELSE NoErr

\* the answer of the store to Update(obj) of kind `src` while it holds `stored`:
\* an object that was deleted and created anew is not the one `obj` was read from
UpdateErr(src, stored, obj, fault) ==
    IF fault = "Write" THEN Err(src \o ".Update", "TransientIO")
    ELSE IF stored = Nil THEN Err(src \o ".Update", "NotFound")
    ELSE IF stored.ObjectMeta.UID # obj.ObjectMeta.UID THEN Err(src \o ".Update", "Conflict")
    ELSE NoErr

\* createDeployment, createService, createConfigMap: what they return for the
\* store's answer (already-exists counts as success)
IgnoreAlreadyExists(err) ==
    IF err.Kind = "AlreadyExists" THEN NoErr ELSE err

Reconcile_Get ==
    /\ pc = "idle"
    /\ passes < MaxPasses
    /\ passes' = passes + 1
    /\ \E tick \in {0, 1}, fault \in {"none", "Get"} :
        LET err == IF fault = "Get" THEN Err("Get", "TransientIO")
                   ELSE IF stCN = Nil THEN Err("Get", "NotFound")
                   ELSE NoErr
        IN  /\ Inject(fault)
            /\ clock' = clock + tick
            /\ steps' = [NoSteps EXCEPT !.fetch = err]
            /\ IF err = NoErr
               THEN cn' = stCN /\ pc' = "status" /\ result' = NoResult
               ELSE cn' = Nil /\ pc' = "idle" /\ result' = FetchFailed(err)
    /\ errors' = <<>>
    /\ calls' = <<>>
    /\ UNCHANGED <<stCN, stSvc, stDeploy, stCM, stPods, lastCond, edits>>
    /\ UNCHANGED <<podItems, service, rt, deploy, curSvc, cm>>

\* when only the re-read of the parent failed, the status is computed on the
\* pass's snapshot and written all the same
reconcileStatusStore_FallBack(err) ==
    IF err = NoErr THEN StoreUpdateParentStatus(stCN, rt)
    ELSE IF err.Src = "status.GetParent" /\ stCN # Nil
    THEN StoreUpdateParentStatus(stCN, reconcileComputeNodeStatus(podItems, service, cn, clock))
    ELSE stCN

\* reconcileStatus: the parent the store holds once it returned err (it reaches
\* r.Status().Update only past the three reads)
reconcileStatusStore(err) ==
    IF err = NoErr THEN StoreUpdateParentStatus(stCN, rt) ELSE stCN

\* reconcileStatus returns err to Reconcile, which only logs it
StatusReturns(err) ==
    /\ steps' = [steps EXCEPT !.status = err]
    /\ pc' = NextStep("status", err)
    /\ stCN' = reconcileStatusStore(err)
    /\ podItems' = <<>>
    /\ service' = Nil
    /\ rt' = Nil

\* reconcileStatus, lines 282-285: r.List of the pods
Status_List ==
    /\ pc = "status"
    /\ \E fault \in {"none", "List"} :
        /\ Inject(fault)
        /\ IF fault = "List"
           THEN StatusReturns(Err("status.List", "TransientIO"))
           ELSE /\ podItems' = stPods
                /\ pc' = "status.service"
                /\ UNCHANGED <<stCN, steps, service, rt>>
    /\ UNCHANGED <<stSvc, stDeploy, stCM, stPods, clock, lastCond, cn, errors, calls,
                   result, passes, edits, deploy, curSvc, cm>>

\* reconcileStatus, lines 287-293: r.Get of the service
Status_GetService ==
    /\ pc = "status.service"
    /\ \E fault \in {"none", "GetService"} :
        LET err == IF fault = "GetService" THEN Err("status.GetService", "TransientIO")
                   ELSE IF stSvc = Nil THEN Err("status.GetService", "NotFound")
                   ELSE NoErr
        IN  /\ Inject(fault)
            /\ IF err # NoErr
               THEN StatusReturns(err)
               ELSE /\ service' = stSvc
                    /\ pc' = "status.parent"
                    /\ UNCHANGED <<stCN, steps, podItems, rt>>
    /\ UNCHANGED <<stSvc, stDeploy, stCM, stPods, clock, lastCond, cn, errors, calls,
                   result, passes, edits, deploy, curSvc, cm>>

\* reconcileStatus, lines 295-308: getRuntimeComputeNode, then the status is
\* computed on the copy it returned
Status_GetParent ==
    /\ pc = "status.parent"
    /\ \E fault \in {"none", "GetParent"} :
        LET err == IF fault = "GetParent" THEN Err("status.GetParent", "TransientIO")
                   ELSE IF stCN = Nil THEN Err("status.GetParent", "NotFound")
                   ELSE NoErr
        IN  /\ Inject(fault)
            /\ IF err # NoErr
               THEN StatusReturns(err) /\ UNCHANGED lastCond
               ELSE /\ rt' = reconcileComputeNodeStatus(podItems, service, stCN, clock)
                    /\ lastCond' = getConditionFromPods(podItems, clock)
                    /\ pc' = "status.update"
                    /\ UNCHANGED <<stCN, steps, podItems, service>>
    /\ UNCHANGED <<stSvc, stDeploy, stCM, stPods, clock, cn, errors, calls,
                   result, passes, edits, deploy, curSvc, cm>>

\* reconcileStatus, line 311: r.Status().Update of the copy, which carries the
\* version token it was read with
Status_Update ==
    /\ pc = "status.update"
    /\ \E fault \in {"none", "UpdateStatus"} :
        LET err == IF fault = "UpdateStatus" THEN Err("status.Update", "TransientIO")
                   ELSE IF stCN = Nil THEN Err("status.Update", "NotFound")
                   ELSE IF VersionConflict(stCN, rt) THEN Err("status.Update", "Conflict")
                   ELSE NoErr
        IN  /\ Inject(fault)
            /\ StatusReturns(err)
    /\ UNCHANGED <<stSvc, stDeploy, stCM, stPods, clock, lastCond, cn, errors, calls,
                   result, passes, edits, deploy, curSvc, cm>>

Reconcile_Status ==
    \/ Status_List
    \/ Status_GetService
    \/ Status_GetParent
    \/ Status_Update

\* reconcileDeployment, lines 109-117: the read that picks create or update
Deployment_Get ==
    /\ pc = "deployment"
    /\ \E fault \in {"none", "Get"} :
        /\ Inject(fault)
        /\ IF fault = "Get"
           THEN Collect("deployment", Err("deployment.Get", "TransientIO")) /\ deploy' = Nil
           ELSE /\ deploy' = stDeploy
                /\ Proceed(IF stDeploy = Nil THEN "deployment.create" ELSE "deployment.update")
    /\ UNCHANGED <<stCN, stSvc, stDeploy, stCM, stPods, clock, lastCond, cn, result,
                   passes, edits, podItems, service, rt, curSvc, cm>>

createDeployment ==
    /\ pc = "deployment.create"
    /\ \E fault \in {"none", "Write", "AlreadyExists"} :
        LET err == CreateErr("deployment", stDeploy, fault)
        IN  /\ Inject(fault)
            /\ Collect("deployment", IgnoreAlreadyExists(err))
            /\ stDeploy' = IF err = NoErr THEN StoreCreate(DeploymentBuild(cn), "uid-deploy")
                           ELSE stDeploy
    /\ deploy' = Nil
    /\ UNCHANGED <<stCN, stSvc, stCM, stPods, clock, lastCond, cn, result,
                   passes, edits, podItems, service, rt, curSvc, cm>>

updateDeployment ==
    /\ pc = "deployment.update"
    /\ \E fault \in {"none", "Write"} :
        LET err == UpdateErr("deployment", stDeploy, deploy, fault)
        IN  /\ Inject(fault)
            /\ Collect("deployment", err)
            /\ stDeploy' = IF err = NoErr
                           THEN StoreUpdate(stDeploy, ExpectedArtifact(DeploymentBuild(cn), deploy))
                           ELSE stDeploy
    /\ deploy' = Nil
    /\ UNCHANGED <<stCN, stSvc, stCM, stPods, clock, lastCond, cn, result,
                   passes, edits, podItems, service, rt, curSvc, cm>>

Reconcile_Deployment ==
    \/ Deployment_Get
    \/ createDeployment
    \/ updateDeployment

\* updateService: the error of r.Update(ctx, cn) under the given store fault
UpdateParentErr(fault) ==
    IF fault = "UpdateParent" THEN Err("service.UpdateParent", "TransientIO")
    ELSE IF stCN = Nil THEN Err("service.UpdateParent", "NotFound")
    ELSE IF VersionConflict(stCN, cn) THEN Err("service.UpdateParent", "Conflict")
    ELSE NoErr

\* updateService: the error of r.Update(ctx, exp); exp carries the version token
\* of the service as it was read
UpdateServiceErr(fault) ==
    LET err == UpdateErr("service", stSvc, curSvc, fault)
    IN  IF err # NoErr THEN err
        ELSE IF VersionConflict(stSvc.ObjectMeta, curSvc.ObjectMeta)
        THEN Err("service.Update", "Conflict")
        ELSE NoErr

\* reconcileService, lines 146-154: the read that picks create or update
Service_Get ==
    /\ pc = "service"
    /\ \E fault \in {"none", "Get"} :
        /\ Inject(fault)
        /\ IF fault = "Get"
           THEN Collect("service", Err("service.Get", "TransientIO")) /\ curSvc' = Nil
           ELSE /\ curSvc' = stSvc
                /\ Proceed(IF stSvc = Nil THEN "service.create"
                           ELSE IF WritesParent(cn) THEN "service.parent"
                           ELSE "service.update")
    /\ UNCHANGED <<stCN, stSvc, stDeploy, stCM, stPods, clock, lastCond, cn, result,
                   passes, edits, podItems, service, rt, deploy, cm>>

\* reconcileService when the service does not exist: createService
ServiceCreate ==
    /\ pc = "service.create"
    /\ \E fault \in {"none", "Write", "AlreadyExists"}, alloc \in Allocations :
        LET err == CreateErr("service", stSvc, fault)
        IN  /\ Inject(fault)
            /\ Collect("service", IgnoreAlreadyExists(err))
            /\ stSvc' = IF err = NoErr THEN StoreCreateService(ServiceBuild(cn), alloc)
                        ELSE stSvc
    /\ curSvc' = Nil
    /\ UNCHANGED <<stCN, stDeploy, stCM, stPods, clock, lastCond, cn, result,
                   passes, edits, podItems, service, rt, deploy, cm>>

\* updateService, lines 166-181: the bindings are changed on the pass's parent,
\* which r.Update(ctx, cn) then writes
ServiceUpdateParent ==
    /\ pc = "service.parent"
    /\ \E fault \in {"none", "UpdateParent"} :
        LET mutated == MutateBindings(cn, curSvc)
            err     == UpdateParentErr(fault)
            stored  == IF err = NoErr THEN StoreUpdateParentSpec(stCN, mutated) ELSE stCN
        IN  /\ Inject(fault)
            /\ stCN' = stored
            \* r.Update fills cn with the stored object on success
            /\ cn' = IF err = NoErr THEN stored ELSE mutated
            /\ IF err # NoErr
               THEN Collect("service", err) /\ curSvc' = Nil
               ELSE Proceed("service.update") /\ UNCHANGED curSvc
    /\ UNCHANGED <<stSvc, stDeploy, stCM, stPods, clock, lastCond, result,
                   passes, edits, podItems, service, rt, deploy, cm>>

\* updateService, lines 183-190: the service is rebuilt and written
ServiceUpdate ==
    /\ pc = "service.update"
    /\ \E fault \in {"none", "Write"}, alloc \in Allocations :
        LET err == UpdateServiceErr(fault)
        IN  /\ Inject(fault)
            /\ Collect("service", err)
            /\ stSvc' = IF err = NoErr
                        THEN StoreUpdateService(stSvc, ExpectedService(cn, curSvc), alloc)
                        ELSE stSvc
    /\ curSvc' = Nil
    /\ UNCHANGED <<stCN, stDeploy, stCM, stPods, clock, lastCond, cn, result,
                   passes, edits, podItems, service, rt, deploy, cm>>

Reconcile_Service ==
    \/ Service_Get
    \/ ServiceCreate
    \/ ServiceUpdateParent
    \/ ServiceUpdate

\* reconcileConfigMap, lines 271-279: the read that picks create or update
ConfigMap_Get ==
    /\ pc = "configmap"
    /\ \E fault \in {"none", "Get"} :
        /\ Inject(fault)
        /\ IF fault = "Get"
           THEN Collect("configmap", Err("configmap.Get", "TransientIO")) /\ cm' = Nil
           ELSE /\ cm' = stCM
                /\ Proceed(IF stCM = Nil THEN "configmap.create" ELSE "configmap.update")
    /\ UNCHANGED <<stCN, stSvc, stDeploy, stCM, stPods, clock, lastCond, cn, result,
                   passes, edits, podItems, service, rt, deploy, curSvc>>

createConfigMap ==
    /\ pc = "configmap.create"
    /\ \E fault \in {"none", "Write", "AlreadyExists"} :
        LET err == CreateErr("configmap", stCM, fault)
        IN  /\ Inject(fault)
            /\ Collect("configmap", IgnoreAlreadyExists(err))
            /\ stCM' = IF err = NoErr THEN StoreCreate(ConfigMapBuild(cn), "uid-cm")
                       ELSE stCM
    /\ cm' = Nil
    /\ UNCHANGED <<stCN, stSvc, stDeploy, stPods, clock, lastCond, cn, result,
                   passes, edits, podItems, service, rt, deploy, curSvc>>

updateConfigMap ==
    /\ pc = "configmap.update"
    /\ \E fault \in {"none", "Write"} :
        LET err == UpdateErr("configmap", stCM, cm, fault)
        IN  /\ Inject(fault)
            /\ Collect("configmap", err)
            /\ stCM' = IF err = NoErr
                       THEN StoreUpdate(stCM, ExpectedArtifact(ConfigMapBuild(cn), cm))
                       ELSE stCM
    /\ cm' = Nil
    /\ UNCHANGED <<stCN, stSvc, stDeploy, stPods, clock, lastCond, cn, result,
                   passes, edits, podItems, service, rt, deploy, curSvc>>

Reconcile_ConfigMap ==
    \/ ConfigMap_Get
    \/ createConfigMap
    \/ updateConfigMap

Reconcile_Return ==
    /\ pc = "return"
    /\ result' = Directive(errors)
    /\ pc' = "idle"
    /\ UNCHANGED <<stCN, stSvc, stDeploy, stCM, stPods, clock, lastCond, cn, errors,
                   calls, steps, passes, edits, faults>>
    /\ UNCHANGED <<podItems, service, rt, deploy, curSvc, cm>>

\* the positions of the pass inside each of its steps
StatusPoints == {"status", "status.service", "status.parent", "status.update"}
DeploymentPoints == {"deployment", "deployment.create", "deployment.update"}
ServicePoints == {"service", "service.create", "service.parent", "service.update"}
ConfigMapPoints == {"configmap", "configmap.create", "configmap.update"}

-----------------------------------------------------------------------------
(* The environment: the end user, the pods and the other clients of the    *)
(* store. They act between any two round trips of a pass, MaxEdits times   *)
(* in a run.                                                               *)

\* one edit of the desired state: the exposure mode, the replica count, one node
\* port, or a binding added to or removed from the end
EditsOf(spec) ==
    {[spec EXCEPT !.ServiceType = t] : t \in ServiceTypes \ {spec.ServiceType}}
    \cup {[spec EXCEPT !.Replicas = r] : r \in {1, 2, 3} \ {spec.Replicas}}
    \cup {[spec EXCEPT !.PortBindings = bl] :
            bl \in {b \in BindingLists :
                      \/ /\ Len(b) = Len(spec.PortBindings)
                         /\ \A i \in DOMAIN b : b[i].Name = spec.PortBindings[i].Name
                         /\ Cardinality({i \in DOMAIN b : b[i] # spec.PortBindings[i]}) = 1
                      \/ /\ Len(b) = Len(spec.PortBindings) + 1
                         /\ SubSeq(b, 1, Len(spec.PortBindings)) = spec.PortBindings
                      \/ /\ Len(b) + 1 = Len(spec.PortBindings)
                         /\ SubSeq(spec.PortBindings, 1, Len(b)) = b}}

\* the end user replaces the desired state
UserEdit ==
    /\ stCN # Nil
    /\ edits < MaxEdits
    /\ edits' = edits + 1
    /\ \E spec \in EditsOf(stCN.Spec) :
        /\ stCN' = [stCN EXCEPT !.Spec = spec, !.ResourceVersion = @ + 1]
    /\ UNCHANGED <<stSvc, stDeploy, stCM, stPods, clock, lastCond, pc, cn, errors,
                   calls, steps, result, passes, faults>>
    /\ UNCHANGED <<podItems, service, rt, deploy, curSvc, cm>>

\* the end user deletes the parent resource
UserDelete ==
    /\ stCN # Nil
    /\ edits < MaxEdits
    /\ edits' = edits + 1
    /\ stCN' = Nil
    /\ UNCHANGED <<stSvc, stDeploy, stCM, stPods, clock, lastCond, pc, cn, errors,
                   calls, steps, result, passes, faults>>
    /\ UNCHANGED <<podItems, service, rt, deploy, curSvc, cm>>

\* the pods the selector matches change
PodsChange ==
    /\ edits < MaxEdits
    /\ edits' = edits + 1
    /\ \E pl \in PodListsPass : pl # stPods /\ stPods' = pl
    /\ UNCHANGED <<stCN, stSvc, stDeploy, stCM, clock, lastCond, pc, cn, errors,
                   calls, steps, result, passes, faults>>
    /\ UNCHANGED <<podItems, service, rt, deploy, curSvc, cm>>

\* what another client of the store creates under the artifacts' name
OtherSpec ==
    [Replicas |-> 3, Selector |-> "app=cn", ServiceType |-> "ClusterIP",
     PortBindings |-> <<Binding("q", 0)>>]

OtherArtifact(built) == [built EXCEPT !.ObjectMeta.Labels = "other-writer"]

OtherDeployment ==
    StoreCreate(OtherArtifact(DeploymentBuild(NewParent(OtherSpec))), "uid-other")

OtherService ==
    [StoreCreateService(OtherArtifact(ServiceBuild(NewParent(OtherSpec))),
                        [n \in {"p", "q"} |-> IF n = "p" THEN 30080 ELSE 30081])
        EXCEPT !.ObjectMeta.UID = "uid-other"]

OtherConfigMap ==
    StoreCreate([OtherArtifact(ConfigMapBuild(NewParent(OtherSpec)))
                    EXCEPT !.Data.ServerConfig = "other.yaml"], "uid-other")

\* another client relabels an artifact, which moves its version token
Relabel(obj) ==
    [obj EXCEPT !.ObjectMeta.Labels = IF @ = "other-writer" THEN "relabelled"
                                      ELSE "other-writer",
                !.ObjectMeta.ResourceVersion = @ + 1]

\* another client creates an artifact the store does not hold
OtherCreate ==
    /\ edits < MaxEdits
    /\ edits' = edits + 1
    /\ \/ stDeploy = Nil /\ stDeploy' = OtherDeployment /\ UNCHANGED <<stSvc, stCM>>
       \/ stSvc = Nil /\ stSvc' = OtherService /\ UNCHANGED <<stDeploy, stCM>>
       \/ stCM = Nil /\ stCM' = OtherConfigMap /\ UNCHANGED <<stDeploy, stSvc>>
    /\ UNCHANGED <<stCN, stPods, clock, lastCond, pc, cn, errors,
                   calls, steps, result, passes, faults>>
    /\ UNCHANGED <<podItems, service, rt, deploy, curSvc, cm>>

\* another client updates an artifact the store holds
OtherUpdate ==
    /\ edits < MaxEdits
    /\ edits' = edits + 1
    /\ \/ stDeploy # Nil /\ stDeploy' = Relabel(stDeploy) /\ UNCHANGED <<stSvc, stCM>>
       \/ stSvc # Nil /\ stSvc' = Relabel(stSvc) /\ UNCHANGED <<stDeploy, stCM>>
       \/ stCM # Nil /\ stCM' = Relabel(stCM) /\ UNCHANGED <<stDeploy, stSvc>>
    /\ UNCHANGED <<stCN, stPods, clock, lastCond, pc, cn, errors,
                   calls, steps, result, passes, faults>>
    /\ UNCHANGED <<podItems, service, rt, deploy, curSvc, cm>>

\* another client (or the platform's garbage collection) deletes an artifact
OtherDelete ==
    /\ edits < MaxEdits
    /\ edits' = edits + 1
    /\ \/ stDeploy # Nil /\ stDeploy' = Nil /\ UNCHANGED <<stSvc, stCM>>
       \/ stSvc # Nil /\ stSvc' = Nil /\ UNCHANGED <<stDeploy, stCM>>
       \/ stCM # Nil /\ stCM' = Nil /\ UNCHANGED <<stDeploy, stSvc>>
    /\ UNCHANGED <<stCN, stPods, clock, lastCond, pc, cn, errors,
                   calls, steps, result, passes, faults>>
    /\ UNCHANGED <<podItems, service, rt, deploy, curSvc, cm>>

\* the desired state a run of passes starts from: the node-port mode with one
\* binding the user left without a node port
PassStates ==
    {spec \in DesiredStates :
        /\ spec.ServiceType = "NodePort"
        /\ spec.PortBindings = <<Binding("p", 0)>>}

Init ==
    /\ stCN \in {NewParent(spec) : spec \in PassStates}
    /\ stSvc = Nil
    /\ stDeploy = Nil
    /\ stCM = Nil
    /\ stPods = <<>>
    /\ clock = 1
    /\ lastCond = ZeroCondition
    /\ pc = "idle"
    /\ cn = Nil
    /\ errors = <<>>
    /\ calls = <<>>
    /\ steps = NoSteps
    /\ result = NoResult
    /\ passes = 0
    /\ edits = 0
    /\ faults = 0
    /\ NoLocals

\* one step of a reconcile pass
Pass ==
    \/ Reconcile_Get
    \/ Reconcile_Status
    \/ Reconcile_Deployment
    \/ Reconcile_Service
    \/ Reconcile_ConfigMap
    \/ Reconcile_Return

\* the controller next to the pods, the other clients of the store and an end
\* user who deletes the parent but does not edit it
Next ==
    \/ Pass
    \/ UserDelete
    \/ PodsChange
    \/ OtherCreate
    \/ OtherUpdate
    \/ OtherDelete

Spec == Init /\ [][Next]_vars

\* the desired states the end user starts from when they go on editing
UserStates ==
    {spec \in DesiredStates :
        spec.PortBindings \in {<<Binding("p", 0)>>, <<Binding("p", 30090), Binding("q", 0)>>}}

\* the user's first desired state; edits lead to the other modes and bindings
InitUser ==
    /\ stCN \in {NewParent(spec) :
                    spec \in {u \in UserStates :
                                /\ u.ServiceType \in {"ClusterIP", "NodePort"}
                                /\ Len(u.PortBindings) = 2}}
    /\ stSvc = Nil
    /\ stDeploy = Nil
    /\ stCM = Nil
    /\ stPods = <<>>
    /\ clock = 1
    /\ lastCond = ZeroCondition
    /\ pc = "idle"
    /\ cn = Nil
    /\ errors = <<>>
    /\ calls = <<>>
    /\ steps = NoSteps
    /\ result = NoResult
    /\ passes = 0
    /\ edits = 0
    /\ faults = 1
    /\ NoLocals

\* the controller next to an end user who edits the desired state
NextUser ==
    \/ Pass
    \/ UserEdit

SpecUser == InitUser /\ [][NextUser]_vars

-----------------------------------------------------------------------------
(* The classifier, the rollup and the status projection on their own:      *)
(* specifications that draw the pod observations from bounded sets and     *)
(* apply the functions to them.                                            *)

SubConditionStatuses == {"True", "False", "Unknown"}

\* every pod observation over the five phases and the four sub-conditions
PodUniverse ==
    {Pod(phase, <<[Type |-> "PodScheduled", Status |-> s1],
                  [Type |-> "Initialized", Status |-> s2],
                  [Type |-> "ContainersReady", Status |-> s3],
                  [Type |-> "Ready", Status |-> s4]>>, ProxyReady) :
        phase \in {"Unknown", "Pending", "Running", "Succeeded", "Failed"},
        s1 \in SubConditionStatuses, s2 \in SubConditionStatuses,
        s3 \in SubConditionStatuses, s4 \in SubConditionStatuses}

\* a parent and its service as the store holds them after a first pass
SampleSpec(replicas) ==
    [Replicas |-> replicas, Selector |-> "app=cn", ServiceType |-> "ClusterIP",
     PortBindings |-> <<Binding("p", 0)>>]

SampleService ==
    StoreCreateService(ServiceBuild(NewParent(SampleSpec(2))),
                       [n \in {"p", "q"} |-> IF n = "p" THEN 30080 ELSE 30081])

InitPure(parents, podlists) ==
    /\ stCN \in parents
    /\ stSvc = SampleService
    /\ stDeploy = Nil
    /\ stCM = Nil
    /\ stPods \in podlists
    /\ clock = 1
    /\ lastCond = ZeroCondition
    /\ pc = "idle"
    /\ cn = Nil
    /\ errors = <<>>
    /\ calls = <<>>
    /\ steps = NoSteps
    /\ result = NoResult
    /\ passes = 0
    /\ edits = 0
    /\ faults = 0
    /\ NoLocals

PureFrame ==
    <<stSvc, stDeploy, stCM, cn, errors, calls, steps, result, passes, edits, faults,
      podItems, service, rt, deploy, curSvc, cm>>

\* getPreferedConditionFromPod applied to the observed pod
Classify ==
    /\ pc = "idle"
    /\ lastCond' = getPreferedConditionFromPod(stPods[1])
    /\ pc' = "classified"
    /\ UNCHANGED <<stCN, stPods, clock>>
    /\ UNCHANGED PureFrame

InitClassify == InitPure({NewParent(SampleSpec(2))}, {<<pod>> : pod \in PodUniverse})

SpecClassify == InitClassify /\ [][Classify]_vars

\* reconcileComputeNodeStatus applied once to the observed pod list
ProjectOnce ==
    /\ pc = "idle"
    /\ stCN' = reconcileComputeNodeStatus(stPods, stSvc, stCN, clock)
    /\ lastCond' = getConditionFromPods(stPods, clock)
    /\ pc' = "projected"
    /\ UNCHANGED <<stPods, clock>>
    /\ UNCHANGED PureFrame

InitRollup == InitPure({NewParent(SampleSpec(r)) : r \in {0, 2, 10}}, PodLists)

SpecRollup == InitRollup /\ [][ProjectOnce]_vars

\* reconcileComputeNodeStatus applied pass after pass, each time to any pod list
ProjectAgain ==
    /\ clock <= MaxMerges
    /\ \E podlist \in PodListsHist :
        /\ stCN' = reconcileComputeNodeStatus(podlist, stSvc, stCN, clock)
        /\ lastCond' = getConditionFromPods(podlist, clock)
    /\ clock' = clock + 1
    /\ pc' = "projected"
    /\ UNCHANGED stPods
    /\ UNCHANGED PureFrame

InitHistory == InitPure({NewParent(SampleSpec(2))}, {<<>>})

SpecHistory == InitHistory /\ [][ProjectAgain]_vars

-----------------------------------------------------------------------------
(* The service reconciler on its own: a pass that has reached               *)
(* reconcileService, over every desired state and every service the store   *)
(* may hold for it (none, or one created under an earlier desired state),   *)
(* with no other client of the store at work.                               *)

\* the services the store may hold: created from some desired state
LiveServices ==
    {StoreCreateService(ServiceBuild(NewParent(spec)), alloc) :
        spec \in DesiredStates, alloc \in Allocations}

InitService ==
    /\ stCN \in {NewParent(spec) : spec \in DesiredStates}
    /\ stSvc \in LiveServices \cup {Nil}
    /\ stDeploy = StoreCreate(DeploymentBuild(stCN), "uid-deploy")
    /\ stCM = Nil
    /\ stPods = <<>>
    /\ clock = 1
    /\ lastCond = ZeroCondition
    /\ pc = "service"
    /\ cn = stCN
    /\ errors = <<>>
    /\ calls = <<"deployment">>
    /\ steps = [NoSteps EXCEPT !.fetch = NoErr,
                               !.status = Err("status.List", "TransientIO"),
                               !.deployment = NoErr]
    /\ result = NoResult
    /\ passes = 1
    /\ edits = 0
    /\ faults = 1
    /\ NoLocals

SpecService == InitService /\ [][Reconcile_Service]_vars

-----------------------------------------------------------------------------
(* The three resource reconcilers run twice in a row: each is invoked on    *)
(* the pass's parent and may be invoked a second time right after, with no  *)
(* other writer in between.                                                 *)

TimesCalled(step) == Cardinality({i \in DOMAIN calls : calls[i] = step})

\* the reconciler that has just returned is invoked again
Rerun ==
    /\ pc \in {"service", "configmap", "return"}
    /\ TimesCalled(calls[Len(calls)]) = 1
    /\ steps[calls[Len(calls)]] = NoErr
    /\ pc' = calls[Len(calls)]
    /\ UNCHANGED <<stCN, stSvc, stDeploy, stCM, stPods, clock, lastCond, cn, errors,
                   calls, steps, result, passes, edits, faults>>
    /\ UNCHANGED <<podItems, service, rt, deploy, curSvc, cm>>

\* the deployment and the config bundle the store may hold: none, or those
\* created under some desired state
StoredArtifacts ==
    {[Deploy |-> Nil, CM |-> Nil]}
    \cup {[Deploy |-> StoreCreate(DeploymentBuild(NewParent(spec)), "uid-deploy"),
           CM |-> StoreCreate(ConfigMapBuild(NewParent(spec)), "uid-cm")] :
            spec \in DesiredStates}

InitRerun ==
    /\ stCN \in {NewParent(spec) : spec \in DesiredStates}
    /\ stSvc \in LiveServices \cup {Nil}
    /\ \E a \in StoredArtifacts : stDeploy = a.Deploy /\ stCM = a.CM
    /\ stPods = <<>>
    /\ clock = 1
    /\ lastCond = ZeroCondition
    /\ pc = "deployment"
    /\ cn = stCN
    /\ errors = <<>>
    /\ calls = <<>>
    /\ steps = [NoSteps EXCEPT !.fetch = NoErr,
                               !.status = Err("status.List", "TransientIO")]
    /\ result = NoResult
    /\ passes = 1
    /\ edits = 0
    /\ faults = MaxFaults - 1
    /\ NoLocals

NextRerun ==
    \/ Reconcile_Deployment
    \/ Reconcile_Service
    \/ Reconcile_ConfigMap
    \/ Rerun

SpecRerun == InitRerun /\ [][NextRerun]_vars

-----------------------------------------------------------------------------
(* The status projector on its own: a pass that has reached reconcileStatus *)
(* over a parent whose status is empty or was projected by an earlier pass. *)

\* the parents the store may hold: new, or with the status an earlier pass wrote
ProjectedParents ==
    {NewParent(spec) : spec \in UserStates}
    \cup {[reconcileComputeNodeStatus(podlist, SampleService, NewParent(spec), 0)
             EXCEPT !.ResourceVersion = 2] :
            spec \in UserStates, podlist \in PodListsPass}

InitProjector ==
    /\ stCN \in ProjectedParents
    /\ stSvc \in {Nil, SampleService}
    /\ stDeploy = Nil
    /\ stCM = Nil
    /\ stPods \in PodListsPass
    /\ clock = 1
    /\ lastCond = ZeroCondition
    /\ pc = "status"
    /\ cn = stCN
    /\ errors = <<>>
    /\ calls = <<>>
    /\ steps = [NoSteps EXCEPT !.fetch = NoErr]
    /\ result = NoResult
    /\ passes = 1
    /\ edits = 0
    /\ faults = 1
    /\ NoLocals

NextProjector ==
    \/ Reconcile_Status
    \/ UserDelete
    \/ PodsChange

SpecProjector == InitProjector /\ [][NextProjector]_vars

-----------------------------------------------------------------------------
(* Passes dispatched for ever over a desired state that no longer changes:  *)
(* the parent exists, nobody edits or deletes it, the pods stay as they     *)
(* are, and store calls fail at most MaxFaults times.                       *)

\* Timestamps and version tokens are only copied and compared for equality, so
\* between passes they are renamed: the current time becomes 1, every older
\* time 0, every version token 1.
Rebase(t) == IF t = clock THEN 1 ELSE 0

RebaseCondition(c) ==
    [c EXCEPT !.LastUpdateTime = Rebase(@), !.LastTransitionTime = Rebase(@)]

RebaseMeta(obj) ==
    IF obj = Nil THEN Nil ELSE [obj EXCEPT !.ObjectMeta.ResourceVersion = 1]

\* the dispatcher requeues the parent: the next passes start
Dispatch ==
    /\ pc = "idle"
    /\ passes = MaxPasses
    /\ stCN # Nil
    /\ passes' = 0
    /\ clock' = 1
    /\ stCN' = [stCN EXCEPT !.ResourceVersion = 1,
                            !.Status.Conditions =
                                [i \in DOMAIN @ |-> RebaseCondition(@[i])]]
    /\ stSvc' = RebaseMeta(stSvc)
    /\ stDeploy' = RebaseMeta(stDeploy)
    /\ stCM' = RebaseMeta(stCM)
    /\ UNCHANGED <<stPods, lastCond, pc, cn, errors, calls, steps, result, edits, faults>>
    /\ UNCHANGED <<podItems, service, rt, deploy, curSvc, cm>>

\* the artifacts the store may hold when the edits stop: none, or those created
\* under one of the user's earlier desired states
UserServices ==
    {StoreCreateService(ServiceBuild(NewParent(spec)), alloc) :
        spec \in UserStates, alloc \in Allocations}

UserArtifacts ==
    {[Deploy |-> Nil, CM |-> Nil]}
    \cup {[Deploy |-> StoreCreate(DeploymentBuild(NewParent(spec)), "uid-deploy"),
           CM |-> StoreCreate(ConfigMapBuild(NewParent(spec)), "uid-cm")] :
            spec \in UserStates}

InitConverge ==
    /\ stCN \in {NewParent(spec) : spec \in UserStates}
    /\ stSvc \in UserServices \cup {Nil}
    /\ \E a \in UserArtifacts : stDeploy = a.Deploy /\ stCM = a.CM
    /\ stPods = <<>>
    /\ clock = 1
    /\ lastCond = ZeroCondition
    /\ pc = "idle"
    /\ cn = Nil
    /\ errors = <<>>
    /\ calls = <<>>
    /\ steps = NoSteps
    /\ result = NoResult
    /\ passes = 0
    /\ edits = 0
    /\ faults = 1
    /\ NoLocals

NextConverge ==
    \/ Pass
    \/ Dispatch

\* the dispatcher keeps dispatching passes and a pass runs to its end
SpecConverge == InitConverge /\ [][NextConverge]_vars /\ WF_vars(NextConverge)

-----------------------------------------------------------------------------
(* Properties.                                                             *)

Reconcilers == <<"deployment", "service", "configmap">>

\* the published condition history
History == stCN.Status.Conditions

(* C1: in every pass that fetched the parent, the deployment, service and   *)
(* config reconcilers are all invoked, in that order, whatever the status   *)
(* projector and the earlier reconcilers returned.                          *)
C1_AllReconcilersInvoked ==
    /\ pc \in StatusPoints \cup DeploymentPoints => calls = <<>>
    /\ pc \in ServicePoints => calls = <<"deployment">>
    /\ pc \in ConfigMapPoints => calls = <<"deployment", "service">>
    /\ pc = "return" => calls = Reconcilers
    /\ (pc = "idle" /\ steps.fetch = NoErr) =>
          /\ calls = Reconcilers
          /\ \A i \in DOMAIN Reconcilers : steps[Reconcilers[i]] # NotRun

\* the projector and the first two reconcilers failed, and the third was invoked
C1_Witness ==
    /\ pc = "return"
    /\ steps.status # NoErr
    /\ steps.deployment # NoErr
    /\ steps.service # NoErr
    /\ steps.configmap # NotRun
    /\ calls = Reconcilers

RequeueAfterDelay == [Requeue |-> FALSE, RequeueAfter |-> 10, Err |-> NoErr]
RequeueNow(err) == [Requeue |-> TRUE, RequeueAfter |-> 0, Err |-> err]

\* the error of the first failing reconciler, in the order deployment, service, config
FirstFailure ==
    IF steps.deployment # NoErr THEN steps.deployment
    ELSE IF steps.service # NoErr THEN steps.service
    ELSE steps.configmap

(* C2: a pass returns one directive: parent not found => requeue after 10   *)
(* seconds without error; another fetch error => requeue now with it; some  *)
(* reconciler failed => requeue now with the first failing reconciler's     *)
(* error; all succeeded => requeue after 10 seconds without error. The      *)
(* status projector's outcome plays no part.                                *)
C2_Directive ==
    (pc = "idle" /\ passes > 0) =>
        /\ steps.fetch.Kind = "NotFound" => result = RequeueAfterDelay
        /\ steps.fetch.Kind \notin {"nil", "NotFound"} => result = RequeueNow(steps.fetch)
        /\ steps.fetch = NoErr =>
              result = IF FirstFailure # NoErr THEN RequeueNow(FirstFailure)
                       ELSE RequeueAfterDelay

\* the projector failed, the deployment succeeded, the service and the config failed
C2_Witness ==
    /\ pc = "idle"
    /\ steps.fetch = NoErr
    /\ steps.status # NoErr
    /\ steps.deployment = NoErr
    /\ steps.service \notin {NoErr, NotRun}
    /\ steps.configmap \notin {NoErr, NotRun}
    /\ result = RequeueNow(steps.service)

(* C3: after any sequence of history merges the history holds no two        *)
(* entries of the same type.                                                *)
C3_TypeUnique ==
    \A i, j \in DOMAIN History : History[i].Type = History[j].Type => i = j

\* three merges went into a history of two entries: a type was merged again
C3_Witness ==
    /\ pc = "projected"
    /\ clock = 4
    /\ Len(History) = 2

(* C4: after any sequence of history merges exactly the entry of the most   *)
(* recently merged type has status True and every other entry has status    *)
(* False (stated for histories whose entries all carry one of the seven     *)
(* types).                                                                  *)
C4_OnlyLatestAsserted ==
    (pc = "projected" /\ \A i \in DOMAIN History : History[i].Type \in ComputeNodeConditionTypes) =>
        \A i \in DOMAIN History :
            History[i].Status = IF History[i].Type = lastCond.Type THEN "True" ELSE "False"

(* C5: right after a merge of type Unknown every other entry has status     *)
(* False; right after a merge of one of the six other types the Unknown     *)
(* entry, if present, has status False and the merged type's entry has      *)
(* status True.                                                             *)
C5_UnknownExclusive ==
    pc = "projected" =>
        /\ lastCond.Type = "Unknown" =>
              \A i \in DOMAIN History :
                  History[i].Type # "Unknown" => History[i].Status = "False"
        /\ lastCond.Type \in ComputeNodeConditionTypes \ {"Unknown"} =>
              /\ \A i \in DOMAIN History :
                    History[i].Type = "Unknown" => History[i].Status = "False"
              /\ \E i \in DOMAIN History :
                    History[i].Type = lastCond.Type /\ History[i].Status = "True"

\* Unknown was merged, then Ready: the Unknown entry is retired
C5_Witness ==
    /\ pc = "projected"
    /\ lastCond.Type = "Ready"
    /\ Len(History) >= 2
    /\ History[1].Type = "Unknown"
    /\ History[1].Status = "False"

ClassifiedAs(t) ==
    {i \in DOMAIN stPods : getPreferedConditionFromPod(stPods[i]).Type = t}

(* C6: for a non-empty pod list with at least one pod classified Ready the  *)
(* rollup is Ready, however many pods are Unknown, Pending, Failed or else. *)
C6_ReadyWins ==
    (pc = "projected" /\ ClassifiedAs("Ready") # {}) =>
        /\ lastCond.Type = "Ready"
        /\ \E i \in DOMAIN History : History[i].Type = "Ready" /\ History[i].Status = "True"

\* one Ready pod next to an Unknown and a Failed one
C6_Witness ==
    /\ pc = "projected"
    /\ Len(stPods) = 3
    /\ ClassifiedAs("Ready") # {}
    /\ ClassifiedAs("Unknown") # {}
    /\ ClassifiedAs("Failed") # {}
    /\ lastCond.Type = "Ready"

(* C7: after any sequence of status projections every entry of the history  *)
(* has one of the seven types and status True or False.                     *)
C7_TypedHistory ==
    \A i \in DOMAIN History :
        /\ History[i].Type \in ComputeNodeConditionTypes
        /\ History[i].Status \in {"True", "False"}

SubConditionTrue(pod, t) ==
    \E i \in DOMAIN pod.Conditions : pod.Conditions[i] = [Type |-> t, Status |-> "True"]

\* the classification the claim prescribes
PrescribedType(pod) ==
    CASE pod.Phase = "Unknown" -> "Unknown"
      [] pod.Phase = "Pending" -> "Pending"
      [] pod.Phase = "Failed" -> "Failed"
      [] OTHER ->
            IF SubConditionTrue(pod, "Ready") THEN "Ready"
            ELSE IF SubConditionTrue(pod, "ContainersReady") THEN "Started"
            ELSE IF SubConditionTrue(pod, "Initialized") THEN "Initialized"
            ELSE IF SubConditionTrue(pod, "PodScheduled") THEN "Deployed"
            ELSE ""

(* C8: the classifier maps phase Unknown, Pending, Failed to the type of    *)
(* that name whatever the sub-conditions; any other phase to Ready, else    *)
(* Started, else Initialized, else Deployed by the first true one of Ready, *)
(* ContainersReady, Initialized, Scheduled, else to the empty type.         *)
C8_Classifier ==
    pc = "classified" => lastCond = CondOfType(PrescribedType(stPods[1]))

\* a pod past the phase test whose Ready and ContainersReady are both true
C8_Witness ==
    /\ pc = "classified"
    /\ stPods[1].Phase = "Succeeded"
    /\ SubConditionTrue(stPods[1], "Ready")
    /\ SubConditionTrue(stPods[1], "ContainersReady")
    /\ ~SubConditionTrue(stPods[1], "PodScheduled")
    /\ lastCond.Type = "Ready"

\* Running, Ready true, and the container named shardingsphere-proxy ready
CountsAsReady(pod) ==
    /\ pod.Phase = "Running"
    /\ SubConditionTrue(pod, "Ready")
    /\ \E j \in DOMAIN pod.ContainerStatuses :
          pod.ContainerStatuses[j] = [Name |-> "shardingsphere-proxy", Ready |-> TRUE]

ReadyPods == {i \in DOMAIN stPods : CountsAsReady(stPods[i])}

(* C9: the ready-replica count is the number of pods that are Running, have *)
(* Ready true and whose shardingsphere-proxy container is ready; the phase  *)
(* is Ready iff that count is positive, else NotReady; the ready string is  *)
(* "<count>/<desired replicas>".                                            *)
C9_ReadyCount ==
    pc = "projected" =>
        /\ stCN.Status.ReadyInstances = Cardinality(ReadyPods)
        /\ stCN.Status.Phase = IF Cardinality(ReadyPods) > 0 THEN "Ready" ELSE "NotReady"
        /\ stCN.Status.Ready =
              ToString(Cardinality(ReadyPods)) \o "/" \o ToString(stCN.Spec.Replicas)

\* pod A counts, pod B's proxy container is not ready, pod C is Pending
C9_Witness ==
    /\ pc = "projected"
    /\ stPods = << Pod("Running", Progress(4), ProxyReady),
                   Pod("Running", Progress(4), ProxyNotReady),
                   Pod("Pending", Progress(1), ProxyNotReady) >>
    /\ stCN.Spec.Replicas = 2
    /\ stCN.Status.ReadyInstances = 1
    /\ stCN.Status.Phase = "Ready"
    /\ stCN.Status.Ready = "1/2"

NodePortsOf(ports, name) ==
    {ports[k].NodePort : k \in {k \in DOMAIN ports : ports[k].Name = name}}

\* updateService wrote the pass's parent and goes on to the service
ParentUpdated ==
    /\ pc = "service.parent"
    /\ pc' = "service.update"

\* updateService wrote the service it had read and returned no error
ServiceUpdated ==
    /\ pc = "service.update"
    /\ pc' = "configmap"
    /\ steps'.service = NoErr

(* C10: the service exists, the mode is NodePort, a live port p has node    *)
(* port N # 0 and the desired binding p has node port 0: the parent update  *)
(* of the service reconciliation stores binding p with node port N, and the *)
(* service update that follows it stores port p with node port N (the       *)
(* binding of the pass's parent holds N by then).                           *)
C10_PortPreservation ==
    [][ /\ (ParentUpdated /\ cn.Spec.ServiceType = "NodePort") =>
              \A i \in DOMAIN cn.Spec.PortBindings, j \in DOMAIN curSvc.Spec.Ports :
                  ( /\ cn.Spec.PortBindings[i].Name = curSvc.Spec.Ports[j].Name
                    /\ cn.Spec.PortBindings[i].NodePort = 0
                    /\ curSvc.Spec.Ports[j].NodePort # 0 ) =>
                      /\ NodePortsOf(stCN'.Spec.PortBindings, curSvc.Spec.Ports[j].Name)
                            = {curSvc.Spec.Ports[j].NodePort}
                      /\ NodePortsOf(cn'.Spec.PortBindings, curSvc.Spec.Ports[j].Name)
                            = {curSvc.Spec.Ports[j].NodePort}
        /\ (ServiceUpdated /\ cn.Spec.ServiceType = "NodePort") =>
              \A i \in DOMAIN cn.Spec.PortBindings, j \in DOMAIN curSvc.Spec.Ports :
                  ( /\ cn.Spec.PortBindings[i].Name = curSvc.Spec.Ports[j].Name
                    /\ cn.Spec.PortBindings[i].NodePort = curSvc.Spec.Ports[j].NodePort
                    /\ curSvc.Spec.Ports[j].NodePort # 0 ) =>
                      NodePortsOf(stSvc'.Spec.Ports, curSvc.Spec.Ports[j].Name)
                          = {curSvc.Spec.Ports[j].NodePort} ]_vars

\* a binding the user left at 0 holds the node port the platform gave the service
C10_Witness ==
    /\ pc = "configmap"
    /\ steps.service = NoErr
    /\ stCN # Nil
    /\ stSvc # Nil
    /\ stCN.Spec.ServiceType = "NodePort"
    /\ \E i \in DOMAIN stCN.Spec.PortBindings :
          /\ stCN.Spec.PortBindings[i].NodePort \in NodePortPool
          /\ NodePortsOf(stSvc.Spec.Ports, stCN.Spec.PortBindings[i].Name)
                = {stCN.Spec.PortBindings[i].NodePort}

\* a step of updateService, on the parent or on the service
ServiceReconciled == pc \in {"service.parent", "service.update"}

NodePortModes == {"NodePort", "LoadBalancer", "ExternalName"}

HasLivePort(name) == \E k \in DOMAIN curSvc.Spec.Ports : curSvc.Spec.Ports[k].Name = name

\* binding `new` is binding `old` up to its node port
SameButNodePort(old, new) == [new EXCEPT !.NodePort = 0] = [old EXCEPT !.NodePort = 0]

(* C11: in modes NodePort, LoadBalancer and ExternalName the steps of a     *)
(* service reconciliation on an existing service change nothing of the      *)
(* desired bindings but node ports, never the node port of a binding that   *)
(* has a nonzero one (whatever the live service carries for its name) and   *)
(* never a binding whose name no live port has; this holds of the stored    *)
(* parent and of the pass's own.                                            *)
C11_FirstWriteWins ==
    [][ (ServiceReconciled /\ cn.Spec.ServiceType \in NodePortModes) =>
          \A after \in {stCN'.Spec.PortBindings, cn'.Spec.PortBindings} :
              /\ DOMAIN after = DOMAIN stCN.Spec.PortBindings
              /\ \A i \in DOMAIN after :
                    LET before == stCN.Spec.PortBindings[i]
                    IN  /\ SameButNodePort(before, after[i])
                        /\ before.NodePort # 0 => after[i] = before
                        /\ ~HasLivePort(before.Name) => after[i] = before ]_vars

\* binding p keeps the user's node port next to a live port p that carries the
\* platform's, and binding q, left at 0, adopted the live one
C11_Witness ==
    /\ pc = "configmap"
    /\ steps.service = NoErr
    /\ stSvc # Nil
    /\ stCN.Spec.ServiceType = "NodePort"
    /\ Len(stCN.Spec.PortBindings) = 2
    /\ stCN.Spec.PortBindings[1].NodePort = 30090
    /\ NodePortsOf(stSvc.Spec.Ports, "p") = {30080}
    /\ stCN.Spec.PortBindings[2].NodePort = 30081
    /\ NodePortsOf(stSvc.Spec.Ports, "q") = {30081}

(* C12: the service exists and the desired mode is ClusterIP: after one     *)
(* successful service reconciliation every binding of the stored parent has *)
(* node port 0, however many had a nonzero node port before.                *)
C12_ClusterIPSwitch ==
    [][ (ServiceUpdated /\ cn.Spec.ServiceType = "ClusterIP") =>
          \A i \in DOMAIN stCN'.Spec.PortBindings :
              stCN'.Spec.PortBindings[i].NodePort = 0 ]_vars

\* the identity metadata of a stored artifact: all but the version token
Identity(obj) == [obj.ObjectMeta EXCEPT !.ResourceVersion = 0]

\* what the claim compares of an artifact: its spec (the data of a config
\* bundle) and its identity metadata
SpecAndIdentity(obj) ==
    IF obj = Nil THEN Nil
    ELSE [Identity |-> Identity(obj),
          Spec |-> IF "Spec" \in DOMAIN obj THEN obj.Spec ELSE obj.Data]

\* the reconciler the position `point` of the pass belongs to
StepOf(point) ==
    IF point \in DeploymentPoints THEN "deployment"
    ELSE IF point \in ServicePoints THEN "service"
    ELSE IF point \in ConfigMapPoints THEN "configmap"
    ELSE ""

\* a round trip of the second run in a row of the reconciler `step`, where neither
\* run failed and the store answered every call in turn
SecondRun(step) ==
    /\ StepOf(pc) = step
    /\ TimesCalled(step) = 1
    /\ steps[step] = NoErr
    /\ steps'[step] = NoErr
    /\ faults' = MaxFaults - 1

(* C13: each of the deployment, service and config reconcilers, run twice   *)
(* in a row with no store failure and no other writer, leaves after the     *)
(* second run a stored artifact whose spec and identity metadata are those  *)
(* stored after the first run: no round trip of the second run changes      *)
(* them.                                                                    *)
C13_Idempotent ==
    [][ /\ SecondRun("deployment") => SpecAndIdentity(stDeploy') = SpecAndIdentity(stDeploy)
        /\ SecondRun("service") => SpecAndIdentity(stSvc') = SpecAndIdentity(stSvc)
        /\ SecondRun("configmap") => SpecAndIdentity(stCM') = SpecAndIdentity(stCM) ]_vars

(* C14: whatever the exposure mode and whatever the builder produced, a    *)
(* step of the service reconciler on an existing service leaves the stored  *)
(* service with the cluster-internal address, the address list and the      *)
(* identity metadata it had: no sequence of runs changes them.              *)
C14_AddressPreserved ==
    [][ stSvc # Nil =>
          /\ stSvc' # Nil
          /\ stSvc'.Spec.ClusterIP = stSvc.Spec.ClusterIP
          /\ stSvc'.Spec.ClusterIPs = stSvc.Spec.ClusterIPs
          /\ Identity(stSvc') = Identity(stSvc) ]_vars

\* the service was updated twice and changed by it (its version token moved),
\* and still has the address and the identity the platform gave it
C14_Witness ==
    /\ pc = "configmap"
    /\ TimesCalled("service") = 2
    /\ steps.service = NoErr
    /\ stSvc # Nil
    /\ stSvc.ObjectMeta.ResourceVersion > 1
    /\ stSvc.Spec.Type = "LoadBalancer"
    /\ stSvc.Spec.ClusterIP = AllocatedClusterIP
    /\ stSvc.Spec.ClusterIPs = <<AllocatedClusterIP>>
    /\ stSvc.ObjectMeta.UID = "uid-svc"

(* C15: under any interleaving of passes and end-user edits, a step of the  *)
(* core (any step that is not the user's edit) changes nothing of the       *)
(* stored desired state but node ports of bindings: replica count,          *)
(* selector, exposure mode and each binding's name, container port, service *)
(* port and protocol stay what the store held right before the step.        *)
C15_OnlyNodePortsWritten ==
    [][ (stCN # Nil /\ edits' = edits) =>
          /\ stCN' # Nil
          /\ stCN'.Spec.Replicas = stCN.Spec.Replicas
          /\ stCN'.Spec.Selector = stCN.Spec.Selector
          /\ stCN'.Spec.ServiceType = stCN.Spec.ServiceType
          /\ DOMAIN stCN'.Spec.PortBindings = DOMAIN stCN.Spec.PortBindings
          /\ \A i \in DOMAIN stCN.Spec.PortBindings :
                SameButNodePort(stCN.Spec.PortBindings[i], stCN'.Spec.PortBindings[i]) ]_vars

\* the user edited the desired state after the pass fetched its snapshot; the
\* pass then wrote the status, its parent update was turned down, and the store
\* still holds the user's edit
C15_Witness ==
    /\ pc = "configmap"
    /\ edits = 1
    /\ steps.status = NoErr
    /\ stCN.Status.Phase # ""
    /\ steps.service = Err("service.UpdateParent", "Conflict")
    /\ cn.Spec.ServiceType # stCN.Spec.ServiceType

\* the reads of reconcileStatus that come before its write
ProjectorReads == {"status.List", "status.GetService", "status.GetParent"}

(* C16: when listing the pods, reading the service (also when it does not   *)
(* exist yet) or re-reading the parent fails, the status projector writes   *)
(* nothing: once it returned that error the stored parent, unless the user  *)
(* deleted it meanwhile, is the one the pass fetched at its start, observed *)
(* status included.                                                         *)
C16_FailedReadNoWrite ==
    (pc = "deployment" /\ steps.status.Src \in ProjectorReads /\ stCN # Nil) =>
        stCN = cn

\* the projector found no service and left the status an earlier pass wrote,
\* though the pods it would have projected are gone
C16_Witness ==
    /\ pc = "deployment"
    /\ steps.status = Err("status.GetService", "NotFound")
    /\ stPods = <<>>
    /\ stCN # Nil
    /\ stCN.Status.Phase = "Ready"
    /\ stCN.Status.ReadyInstances = 1

\* a service spec without what the platform assigns: address and node ports
Unassigned(spec) ==
    [spec EXCEPT !.ClusterIP = "", !.ClusterIPs = <<>>,
                 !.Ports = [i \in DOMAIN @ |-> [@[i] EXCEPT !.NodePort = 0]]]

\* the three artifacts exist with the spec the builders produce for the stored
\* desired state
Converged ==
    /\ stCN # Nil
    /\ stDeploy # Nil
    /\ stDeploy.Spec = DeploymentBuild(stCN).Spec
    /\ stSvc # Nil
    /\ Unassigned(stSvc.Spec) = Unassigned(ServiceBuild(stCN).Spec)
    /\ stCM # Nil
    /\ stCM.Data = ConfigMapBuild(stCN).Data

\* no step removes an artifact the store holds
NeverDeleted ==
    /\ stDeploy # Nil => stDeploy' # Nil
    /\ stSvc # Nil => stSvc' # Nil
    /\ stCM # Nil => stCM' # Nil

(* C17: the parent exists, its desired state no longer changes, passes keep *)
(* being dispatched and store calls eventually succeed: eventually the      *)
(* deployment, the service and the config bundle all exist with the spec    *)
(* the builders produce for the desired state, and no step of a pass        *)
(* removes an artifact that exists.                                         *)
C17_Convergence == <>Converged /\ [][NeverDeleted]_vars

TypesOf(conditions) == [i \in DOMAIN conditions |-> conditions[i].Type]

IsPrefix(short, long) ==
    /\ Len(short) <= Len(long)
    /\ SubSeq(long, 1, Len(short)) = short

(* C18: for every history merge the entry types before it are a prefix of   *)
(* the entry types after it: no entry is removed or moved, a type already   *)
(* present is merged in place, and a type not yet present is appended at    *)
(* the end; the length of the history never decreases.                      *)
C18_PositionStable ==
    [][ /\ IsPrefix(TypesOf(History), TypesOf(History'))
        /\ Len(History') >= Len(History)
        /\ (\E i \in DOMAIN History : History[i].Type = lastCond'.Type) =>
              TypesOf(History') = TypesOf(History)
        /\ (\A i \in DOMAIN History : History[i].Type # lastCond'.Type) =>
              TypesOf(History') = Append(TypesOf(History), lastCond'.Type) ]_vars

\* Unknown, Ready, then Unknown again: the first entry was merged in place at the
\* third merge and Ready keeps the second place
C18_Witness ==
    /\ pc = "projected"
    /\ clock = 4
    /\ TypesOf(History) = <<"Unknown", "Ready">>
    /\ lastCond.Type = "Unknown"
    /\ History[1].LastTransitionTime = 3
    /\ History[2].LastTransitionTime = 2

(* C19: in a run where the environment took no step (no other writer) and   *)
(* no store call failed, no update of a pass is turned down as a Conflict:  *)
(* in particular the parent update of the service reconciler, made with the *)
(* snapshot fetched at the start of the pass, is accepted after the         *)
(* projector wrote the status.                                              *)
C19_NoSelfConflict ==
    (faults = 0 /\ edits = 0) =>
        \A step \in DOMAIN steps : steps[step].Kind # "Conflict"

NamesOf(seq) == {seq[i].Name : i \in DOMAIN seq}

(* C20: in NodePort mode, after a successful update of an existing service, *)
(* the port names of the updated service are the names of the desired       *)
(* bindings: a binding with no same-named port on the live service gets a   *)
(* port on the updated one.                                                 *)
C20_PortsFollowBindings ==
    [][ (ServiceUpdated /\ cn.Spec.ServiceType = "NodePort") =>
          NamesOf(stSvc'.Spec.Ports) = NamesOf(stCN'.Spec.PortBindings) ]_vars

(* C21: in every status the projector computes, phase Ready comes with an   *)
(* entry of type Ready and status True in the condition history (a Ready    *)
(* entry may be True under phase NotReady).                                 *)
C21_PhaseAgreesWithHistory ==
    (pc = "projected" /\ stCN.Status.Phase = "Ready") =>
        \E i \in DOMAIN History :
            History[i].Type = "Ready" /\ History[i].Status = "True"

\* Pending was merged first, then Ready twice: the phase is Ready and the Ready
\* entry, merged in place at the third projection, is True
C21_Witness ==
    /\ pc = "projected"
    /\ stCN.Status.Phase = "Ready"
    /\ stCN.Status.ReadyInstances = 2
    /\ TypesOf(History) = <<"Pending", "Ready">>
    /\ History[2].Status = "True"
    /\ History[2].LastTransitionTime = 3

====
